---------------------------- MODULE Spec2Model ----------------------------
(***************************************************************************)
(* Command-and-scheduling coordinator of the Meshtastic terminal monitor   *)
(* (src/mesh_terminal.py, class MeshtasticTerminal).                       *)
(*                                                                         *)
(* Threads of the program and how they appear here:                        *)
(*   - the transport's reader thread, which calls on_receive once per      *)
(*     decoded packet (actions OnReceive and OnRouting, one whole handler  *)
(*     per step); where the wait inside load_model() matters the packets   *)
(*     queue in `inbox` and the CHATBOTON handler takes two steps          *)
(*     (Deliver, LoadEnd);                                                 *)
(*   - the auto-send worker threads running auto_send_worker (one started  *)
(*     by main() on auto-start, one by main_menu()); a worker's steps are  *)
(*     cut at its blocking calls (time.sleep, serial I/O);                 *)
(*   - the main thread: start-up, then the operator's menu.                *)
(*                                                                         *)
(* The target list is the one the configuration file holds at start-up;   *)
(* the operator's node-selection menu (select_nodes) is not part of the    *)
(* model.                                                                  *)
(*                                                                         *)
(* Texts are sequences of one-character strings, so that strip(), upper(), *)
(* startswith(), rfind() and int() are computed as Python computes them.   *)
(*                                                                         *)
(* split_message is a pure function; its call is a little state machine of *)
(* its own (SplitEnter, SplitStep) over the variables named after its      *)
(* locals.                                                                 *)
(*                                                                         *)
(* The older controller (src/main.py, start_messaging) with its transport  *)
(* class (src/meshtastic_comm.py, MeshtasticComm) has a state of its own:  *)
(* one MeshtasticComm and one messaging_loop thread per call of            *)
(* start_messaging.                                                        *)
(***************************************************************************)
EXTENDS Integers, Sequences, FiniteSets, TLC

VARIABLES
    now,                  \* time.time(), in whole seconds
    connected,            \* self.connected (the interface is open and on_receive subscribed)
    mainPc,               \* main thread: "startup" | "dashboard" | "menu" | "closing" | "exited"
    auto_send_enabled,    \* self.auto_send_enabled
    auto_send_paused,     \* self.auto_send_paused
    auto_send_interval,   \* self.auto_send_interval
    selected_nodes,       \* self.selected_nodes (a list)
    last_send_time,       \* self.last_send_time
    chatbot_enabled,      \* self.chatbot_enabled
    chatbot,              \* the MeshChatBot: [available, model_exists, loaded]
    rate_limit_tracker,   \* self.rate_limit_tracker: node_id -> [count, reset_time]
    config_file,          \* contents of terminal_config.json
    packets_rx,           \* self.stats['packets_rx']
    lastRx,               \* what the latest on_receive call saw and transmitted
    rate_notices,         \* rate-limit notices transmitted to a peer in its current window
    pc,                   \* worker thread -> position in auto_send_worker / send_telemetry
    pos,                  \* worker thread -> index of the for loop of send_telemetry
    started,              \* worker thread -> the time its current batch was begun (0: none)
    message_acks,         \* self.message_acks: node_id -> ack_status ("NONE": no entry)
    acks_due,             \* routing responses on their way back from a node
    conversations,        \* self.conversations: node_id -> list of entries
    inbox,                \* packets read from the radio that on_receive has yet to handle
    loading,              \* the reader thread is inside load_model(): who asked, or "none"
    telemetry_history,    \* self.telemetry_history (a list of samples)
    split_text,           \* split_message: its argument text
    max_length,           \* split_message: its argument max_length
    remaining,            \* split_message: remaining
    chunks,               \* split_message: chunks
    splitPc,              \* split_message: "entry" | "loop" | "done" ("idle": not called)
    legacyPc,             \* main.py, main thread: "menu" | "joining" (in messaging_thread.join())
    session,              \* main.py: calls of start_messaging so far (one comm each)
    messaging_loop,       \* main.py: session -> position of its messaging_loop thread
    messaging_thread,     \* MeshtasticComm.messaging_thread of each session's comm
    stop_messaging_flag,  \* MeshtasticComm.stop_messaging_flag of each session's comm
    legacy_sent           \* session -> messages its messaging_loop has transmitted

vars == <<now, connected, mainPc, auto_send_enabled, auto_send_paused, auto_send_interval,
          selected_nodes, last_send_time, chatbot_enabled, chatbot, rate_limit_tracker,
          config_file, packets_rx, lastRx, rate_notices, pc, pos, started, message_acks,
          acks_due, conversations, inbox, loading, telemetry_history, split_text,
          max_length, remaining, chunks, splitPc, legacyPc, session, messaging_loop,
          messaging_thread, stop_messaging_flag, legacy_sent>>

schedVars == <<auto_send_enabled, auto_send_paused, auto_send_interval,
               selected_nodes, last_send_time>>
botVars == <<chatbot_enabled, chatbot>>
rxVars == <<rate_limit_tracker, packets_rx, lastRx, rate_notices>>
workerVars == <<pc, pos, started>>
ledgerVars == <<message_acks, acks_due, conversations>>
queueVars == <<inbox, loading>>
splitVars == <<split_text, max_length, remaining, chunks, splitPc>>
legacyVars == <<legacyPc, session, messaging_loop, messaging_thread,
                stop_messaging_flag, legacy_sent>>

---------------------------------------------------------------------------
(* Bounds of the model *)

\* the clock's value when the process starts (any epoch time exceeds every interval)
StartTime == 4000
\* inbound packets handled in one behaviour of Spec
MaxPackets == 2
\* inbound packets handled in one behaviour of SpecSched
MaxSchedPackets == 2
\* inbound packets handled in one behaviour of SpecRate
MaxRatePackets == 53
\* routing responses awaited from one node at a time; the answers to further
\* sends are lost on the air
MaxAcksDue == 2
\* routing responses handled in one behaviour of SpecBatch
MaxBatchPackets == 3
\* packets arriving in one behaviour of SpecLoad
MaxLoadPackets == 3
\* inbound packets handled in one behaviour of SpecLive
MaxLivePackets == 3
\* packets received in one life of the process in SpecRestart
MaxRestartPackets == 2
\* the longest text given to split_message, and the largest max_length
MaxTextLen == 6
MaxChunkLen == 5
\* telemetry packets received in SpecTelemetry
MaxTelemetryPackets == 3
\* packets received in SpecLedger
MaxLedgerPackets == 3
\* inbound packets handled in one behaviour of SpecSkew
MaxSkewPackets == 4
MaxSessions == 2
MaxLegacySends == 3

Peers == {"p1", "p2"}
Workers == {"auto", "menu"}

\* seconds after StartTime at which the clock is observed
Delays == {0, 29, 30, 60}
Instants == {StartTime + d : d \in Delays}
\* the same for the rate limiter: around one window of 3600 s
RateDelays == {0, 3599, 3600}
RateInstants == {StartTime + d : d \in RateDelays}

---------------------------------------------------------------------------
(* Program constants *)

DefaultInterval == 60
MinFreq == 30
MaxFreq == 3600
RateLimitMax == 50
RateWindow == 3600
MergeWindow == 5

---------------------------------------------------------------------------
(* Texts *)

STOP == <<"S","T","O","P">>
START == <<"S","T","A","R","T">>
FREQ == <<"F","R","E","Q">>
RADIOCHECK == <<"R","A","D","I","O","C","H","E","C","K">>
WEATHERCHECK == <<"W","E","A","T","H","E","R","C","H","E","C","K">>
KEYWORDS == <<"K","E","Y","W","O","R","D","S">>
CHATBOTON == <<"C","H","A","T","B","O","T","O","N">>
CHATBOTOFF == <<"C","H","A","T","B","O","T","O","F","F">>

keyword_list == {STOP, START, RADIOCHECK, WEATHERCHECK, KEYWORDS, CHATBOTON, CHATBOTOFF}

LowerCase == <<"a","b","c","d","e","f","g","h","i","j","k","l","m",
               "n","o","p","q","r","s","t","u","v","w","x","y","z">>
UpperCase == <<"A","B","C","D","E","F","G","H","I","J","K","L","M",
               "N","O","P","Q","R","S","T","U","V","W","X","Y","Z">>
Digits == <<"0","1","2","3","4","5","6","7","8","9">>
Whitespace == {" ", "\t", "\n"}

Range(s) == {s[i] : i \in DOMAIN s}

\* str.upper(), one character
UpperChar(c) ==
    IF \E i \in DOMAIN LowerCase : LowerCase[i] = c
    THEN UpperCase[CHOOSE i \in DOMAIN LowerCase : LowerCase[i] = c]
    ELSE c

\* str.upper()
Upper(s) == [i \in 1..Len(s) |-> UpperChar(s[i])]

RECURSIVE LStrip(_)
LStrip(s) == IF s # <<>> /\ Head(s) \in Whitespace THEN LStrip(Tail(s)) ELSE s

RECURSIVE RStrip(_)
RStrip(s) ==
    IF s # <<>> /\ s[Len(s)] \in Whitespace THEN RStrip(SubSeq(s, 1, Len(s) - 1)) ELSE s

\* str.strip()
Strip(s) == RStrip(LStrip(s))

\* str.startswith()
StartsWith(s, prefix) == Len(s) >= Len(prefix) /\ SubSeq(s, 1, Len(prefix)) = prefix

\* text.strip().upper()
Normalize(text) == Upper(Strip(text))

IsDigit(c) == c \in Range(Digits)
DigitVal(c) == (CHOOSE i \in DOMAIN Digits : Digits[i] = c) - 1

RECURSIVE DigitsValue(_, _)
DigitsValue(s, acc) ==
    IF s = <<>> THEN acc
    ELSE IF Head(s) = "_" THEN DigitsValue(Tail(s), acc)
    ELSE DigitsValue(Tail(s), acc * 10 + DigitVal(Head(s)))

\* a decimal literal as int() accepts it: digits, single underscores between digits
IsDecimal(s) ==
    /\ s # <<>>
    /\ IsDigit(s[1])
    /\ IsDigit(s[Len(s)])
    /\ \A i \in DOMAIN s : IsDigit(s[i]) \/ s[i] = "_"
    /\ \A i \in 1..(Len(s) - 1) : ~(s[i] = "_" /\ s[i + 1] = "_")

\* int(s) of Python for ASCII input: [ok |-> FALSE] stands for ValueError
PyInt(s) ==
    LET t == Strip(s)
        signed == t # <<>> /\ t[1] \in {"+", "-"}
        body == IF signed THEN Tail(t) ELSE t
    IN  IF IsDecimal(body)
        THEN [ok |-> TRUE,
              val |-> IF signed /\ t[1] = "-" THEN 0 - DigitsValue(body, 0)
                      ELSE DigitsValue(body, 0)]
        ELSE [ok |-> FALSE, val |-> 0]


---------------------------------------------------------------------------
(* Inputs *)

Hello == <<"h","e","l","l","o">>
StopLower == <<" ","s","t","o","p","\n">>
Freq15 == <<"F","R","E","Q","1","5">>
Freq29 == <<"F","R","E","Q","2","9">>
Freq30 == <<"F","R","E","Q","3","0">>
Freq120Lower == <<"f","r","e","q","1","2","0">>
Freq3600 == <<"F","R","E","Q","3","6","0","0">>
Freq3601 == <<"F","R","E","Q","3","6","0","1">>
Freq9999 == <<"F","R","E","Q","9","9","9","9">>
FreqX == <<"F","R","E","Q","X">>

\* texts a peer sends
KeywordTexts ==
    {STOP, StopLower, START, FREQ, Freq15, Freq29, Freq30, Freq120Lower, Freq3600, Freq3601,
     Freq9999, FreqX, RADIOCHECK, WEATHERCHECK, KEYWORDS, CHATBOTON, CHATBOTOFF}
Texts == KeywordTexts \cup {Hello}
\* the texts that reach the scheduler
SchedTexts == {STOP, START, Freq30}

\* what the operator types at "Enter interval in seconds (min 30)"
MenuIntervals == {29, 3601}

\* target lists a configuration file holds
NodeLists == {<<>>, <<"p1">>, <<"p1", "p2">>}

\* text.strip().upper() of every text a peer sends, computed once
Normalized == [text \in Texts |-> Normalize(text)]

\* int(text[4:]) of every normalized text, computed once
FreqArgument ==
    [text \in {Normalized[t] : t \in Texts} |-> PyInt(SubSeq(text, 5, Len(text)))]

---------------------------------------------------------------------------
(* Persisted configuration: terminal_config.json *)

\* no file on disk; the fields are the defaults config.get() falls back to
NoConfig ==
    [present |-> FALSE, auto_send_enabled |-> FALSE, auto_send_interval |-> DefaultInterval,
     selected_nodes |-> <<>>, chatbot_enabled |-> TRUE]

\* save_config: the file written from the live fields
SavedConfig(enabled, interval, nodes, bot_enabled) ==
    [present |-> TRUE, auto_send_enabled |-> enabled, auto_send_interval |-> interval,
     selected_nodes |-> nodes, chatbot_enabled |-> bot_enabled]

---------------------------------------------------------------------------
(* Command router *)

\* a text handed to interface.sendText: destination, kind of text, the numbers it names
Msg(to, kind, a, b) == [to |-> to, kind |-> kind, a |-> a, b |-> b]

\* 'from_id in self.selected_nodes'
IsTrustedAnyone(from_id) == TRUE
IsTrusted(from_id) == from_id \in Range(selected_nodes)

\* the classification of on_receive: any(text_upper == kw or text_upper.startswith('FREQ') ...)
is_keyword(text_upper) ==
    \E kw \in keyword_list : text_upper = kw \/ StartsWith(text_upper, FREQ)

\* '30 <= new_freq <= 3600'
FreqInRange(new_freq) == MinFreq <= new_freq /\ new_freq <= MaxFreq

\* the reply to an accepted FREQ: "FREQ set to {new_freq}s (was {old_freq}s)"
FreqSetReplyStale(from_id, new_freq, old_freq) == Msg(from_id, "FREQ_SET", new_freq, new_freq)
FreqSetReply(from_id, new_freq, old_freq) == Msg(from_id, "FREQ_SET", new_freq, old_freq)

\* what one call of process_keyword_command does: the new values of the fields it
\* may assign, whether it calls save_config, and the texts it transmits, in order
Effect(paused, interval, bot_enabled, loaded, save, sends) ==
    [paused |-> paused, interval |-> interval, bot_enabled |-> bot_enabled,
     loaded |-> loaded, save |-> save, sends |-> sends]

\* no branch matched, or the branch assigns nothing: reply_message as given
Reply(from_id, kind) ==
    Effect(auto_send_paused, auto_send_interval, chatbot_enabled, chatbot.loaded, FALSE,
           <<Msg(from_id, kind, 0, 0)>>)

FreqCommand(text, from_id) ==
    LET r == FreqArgument[text]
    IN  IF ~r.ok THEN Reply(from_id, "FREQ_FORMAT")
        ELSE IF FreqInRange(r.val)
        THEN Effect(auto_send_paused, r.val, chatbot_enabled, chatbot.loaded, TRUE,
                    <<FreqSetReply(from_id, r.val, auto_send_interval)>>)
        ELSE Reply(from_id, "FREQ_RANGE")

\* load_ok: whether chatbot.load_model() succeeds when backend and model file exist
ChatbotOnCommandEnablesAnyway(from_id, load_ok) ==
    IF ~chatbot.available THEN Reply(from_id, "CHATBOT_UNAVAILABLE")
    ELSE IF ~chatbot.model_exists THEN Reply(from_id, "CHATBOT_NO_MODEL")
    ELSE IF chatbot_enabled /\ chatbot.loaded THEN Reply(from_id, "CHATBOT_ALREADY_ENABLED")
    ELSE IF load_ok
    THEN Effect(auto_send_paused, auto_send_interval, TRUE, TRUE, TRUE,
                <<Msg(from_id, "GREETING", 0, 0), Msg(from_id, "CHATBOT_ENABLED", 0, 0)>>)
    ELSE Effect(auto_send_paused, auto_send_interval, TRUE, FALSE, TRUE,
                <<Msg(from_id, "CHATBOT_LOAD_FAILED", 0, 0)>>)
ChatbotOnCommand(from_id, load_ok) ==
    IF ~chatbot.available THEN Reply(from_id, "CHATBOT_UNAVAILABLE")
    ELSE IF ~chatbot.model_exists THEN Reply(from_id, "CHATBOT_NO_MODEL")
    ELSE IF chatbot_enabled /\ chatbot.loaded THEN Reply(from_id, "CHATBOT_ALREADY_ENABLED")
    ELSE IF load_ok
    THEN Effect(auto_send_paused, auto_send_interval, TRUE, TRUE, TRUE,
                <<Msg(from_id, "GREETING", 0, 0), Msg(from_id, "CHATBOT_ENABLED", 0, 0)>>)
    ELSE Effect(auto_send_paused, auto_send_interval, chatbot_enabled, FALSE, FALSE,
                <<Msg(from_id, "CHATBOT_LOAD_FAILED", 0, 0)>>)

ChatbotOffCommandStaysEnabled(from_id) ==
    IF ~chatbot_enabled THEN Reply(from_id, "CHATBOT_ALREADY_DISABLED")
    ELSE Effect(auto_send_paused, auto_send_interval, chatbot_enabled, chatbot.loaded, TRUE,
                <<Msg(from_id, "CHATBOT_DISABLED", 0, 0)>>)
ChatbotOffCommand(from_id) ==
    IF ~chatbot_enabled THEN Reply(from_id, "CHATBOT_ALREADY_DISABLED")
    ELSE Effect(auto_send_paused, auto_send_interval, FALSE, FALSE, TRUE,
                <<Msg(from_id, "CHATBOT_DISABLED", 0, 0)>>)

process_keyword_command(text, from_id, load_ok) ==
    IF text = STOP
    THEN Effect(TRUE, auto_send_interval, chatbot_enabled, chatbot.loaded, FALSE,
                <<Msg(from_id, "STOPPED", 0, 0)>>)
    ELSE IF text = START
    THEN Effect(FALSE, auto_send_interval, chatbot_enabled, chatbot.loaded, FALSE,
                <<Msg(from_id, "STARTED", 0, 0)>>)
    ELSE IF StartsWith(text, FREQ) /\ Len(text) > 4 THEN FreqCommand(text, from_id)
    ELSE IF text = RADIOCHECK THEN Reply(from_id, "RADIOCHECK")
    ELSE IF text = WEATHERCHECK THEN Reply(from_id, "WEATHERCHECK")
    ELSE IF text = KEYWORDS THEN Reply(from_id, "KEYWORDS")
    ELSE IF text = CHATBOTON THEN ChatbotOnCommand(from_id, load_ok)
    ELSE IF text = CHATBOTOFF THEN ChatbotOffCommand(from_id)
    ELSE \* reply_message stays None: nothing is sent
         Effect(auto_send_paused, auto_send_interval, chatbot_enabled, chatbot.loaded,
                FALSE, <<>>)

---------------------------------------------------------------------------
(* Rate limiter *)

\* 'tracker['count'] >= 50'
OverLimitOffByOne(count) == count > RateLimitMax
OverLimit(count) == count >= RateLimitMax

\* 'current_time >= tracker['reset_time']'
WindowExpiredStrictlyLater(current_time, reset_time) == current_time > reset_time
WindowExpired(current_time, reset_time) == current_time >= reset_time

NewWindow(current_time) == [count |-> 0, reset_time |-> current_time + RateWindow]

\* check_rate_limit(node_id): the tracker table afterwards, the value returned, and
\* whether the call opened a window (first use or reset)
check_rate_limit(node_id, current_time) ==
    LET known == node_id \in DOMAIN rate_limit_tracker
        t0 == IF known THEN rate_limit_tracker[node_id] ELSE NewWindow(current_time)
        expired == WindowExpired(current_time, t0.reset_time)
        t1 == IF expired THEN NewWindow(current_time) ELSE t0
        allowed == ~OverLimit(t1.count)
        t2 == IF allowed THEN [t1 EXCEPT !.count = @ + 1] ELSE t1
    IN  [tracker |-> [n \in DOMAIN rate_limit_tracker \cup {node_id} |->
                         IF n = node_id THEN t2 ELSE rate_limit_tracker[n]],
         allowed |-> allowed,
         opened |-> ~known \/ expired]

\* 'if from_id not in self.selected_nodes' before the responder
RateLimitedEveryone(from_id) == TRUE
RateLimited(from_id) == ~IsTrusted(from_id)

---------------------------------------------------------------------------
(* Initial state: MeshtasticTerminal.__init__ *)

NoRx ==
    [from |-> "none", text |-> <<>>, keyword |-> FALSE, trusted |-> FALSE,
     path |-> "none", sends |-> <<>>]

\* __init__ with `cfg` on disk; load_ok: whether the start-up load_model() succeeds
Construct(cfg, available, model_exists, load_ok) ==
    LET try_load == cfg.chatbot_enabled /\ model_exists
        loaded == try_load /\ available /\ load_ok
    IN  /\ now = StartTime
        /\ connected = FALSE
        /\ mainPc = "startup"
        /\ config_file = cfg
        /\ auto_send_enabled = cfg.auto_send_enabled
        /\ auto_send_interval = cfg.auto_send_interval
        /\ selected_nodes = cfg.selected_nodes
        /\ auto_send_paused = FALSE
        /\ last_send_time = 0
        /\ chatbot_enabled = (IF try_load THEN loaded ELSE cfg.chatbot_enabled)
        /\ chatbot = [available |-> available, model_exists |-> model_exists,
                      loaded |-> loaded]
        /\ rate_limit_tracker = <<>>
        /\ packets_rx = 0
        /\ lastRx = NoRx
        /\ rate_notices = [p \in Peers |-> 0]
        /\ pc = [w \in Workers |-> "off"]
        /\ pos = [w \in Workers |-> 1]
        /\ started = [w \in Workers |-> 0]
        /\ message_acks = [p \in Peers |-> "NONE"]
        /\ acks_due = [p \in Peers |-> 0]
        /\ conversations = [p \in Peers |-> <<>>]
        /\ inbox = <<>>
        /\ loading = "none"
        /\ telemetry_history = <<>>

\* split_message has not been called
NotSplitting ==
    /\ split_text = <<>>
    /\ max_length = 200
    /\ remaining = <<>>
    /\ chunks = <<>>
    /\ splitPc = "idle"

\* main.py at its menu: start_messaging has not been called
Sessions == 1..MaxSessions
LegacyIdle ==
    /\ legacyPc = "menu"
    /\ session = 0
    /\ messaging_loop = [s \in Sessions |-> "unborn"]
    /\ messaging_thread = [s \in Sessions |-> "None"]
    /\ stop_messaging_flag = [s \in Sessions |-> FALSE]
    /\ legacy_sent = [s \in Sessions |-> 0]

\* configuration files the program itself writes (or none)
InitConfigs ==
    {NoConfig} \cup
    {SavedConfig(e, DefaultInterval, n, b) : e \in BOOLEAN, n \in NodeLists, b \in BOOLEAN}

Init ==
    \E cfg \in InitConfigs, available \in BOOLEAN, model_exists \in BOOLEAN,
       load_ok \in BOOLEAN :
        Construct(cfg, available, model_exists, load_ok) /\ NotSplitting /\ LegacyIdle

---------------------------------------------------------------------------
(* The clock *)

Tick(instants) ==
    /\ \E t \in instants : t > now /\ now' = t
    /\ UNCHANGED <<connected, mainPc, schedVars, botVars, rxVars, config_file, workerVars,
                   ledgerVars, queueVars, telemetry_history,
                   splitVars, legacyVars>>

\* time.time() is the wall clock: it is set back (a time synchronisation, say)
ClockJumpsBack(instants) ==
    /\ \E t \in instants : t < now /\ now' = t
    /\ UNCHANGED <<connected, mainPc, schedVars, botVars, rxVars, config_file, workerVars,
                   ledgerVars, queueVars, telemetry_history, splitVars, legacyVars>>

---------------------------------------------------------------------------
(* Inbound packets: on_receive for a TEXT_MESSAGE_APP packet *)

Save(enabled, interval, bot_enabled) ==
    SavedConfig(enabled, interval, selected_nodes, bot_enabled)

\* an entry of a conversation: its 'direction' and what its 'text' is
Entry(direction, kind) == [direction |-> direction, kind |-> kind]

\* on_receive's 'Add to conversations' after whatever the handler itself appended
Stored(from_id, sent) ==
    [conversations EXCEPT ![from_id] = @ \o sent \o <<Entry("received", "text")>>]

\* response: whether chatbot.generate_response returns a text (at most 200
\* characters, so split_message returns it as one chunk)
OnReceive(from_id, text, load_ok, response) ==
    LET text_upper == Normalized[text]
        keyword == is_keyword(text_upper)
        trusted == IsTrusted(from_id)
        to_bot == ~keyword /\ chatbot_enabled /\ chatbot.loaded
        cmd == process_keyword_command(text_upper, from_id, load_ok)
        rl == check_rate_limit(from_id, now)
        answer == IF response THEN <<Msg(from_id, "CHATBOT_RESPONSE", 0, 0)>> ELSE <<>>
        \* the reply is appended to the conversation, the greeting is not
        replied == IF cmd.sends # <<>> THEN <<Entry("sent", "reply")>> ELSE <<>>
        answered == IF response THEN <<Entry("sent", "response")>> ELSE <<>>
        seen(path, sends) ==
            [from |-> from_id, text |-> text_upper, keyword |-> keyword,
             trusted |-> trusted, path |-> path, sends |-> sends]
    IN  /\ connected
        /\ packets_rx' = packets_rx + 1
        /\ IF keyword /\ trusted
           THEN /\ auto_send_paused' = cmd.paused
                /\ auto_send_interval' = cmd.interval
                /\ chatbot_enabled' = cmd.bot_enabled
                /\ chatbot' = [chatbot EXCEPT !.loaded = cmd.loaded]
                /\ config_file' = IF cmd.save
                                  THEN Save(auto_send_enabled, cmd.interval, cmd.bot_enabled)
                                  ELSE config_file
                /\ lastRx' = seen("command", cmd.sends)
                /\ conversations' = Stored(from_id, replied)
                /\ UNCHANGED <<rate_limit_tracker, rate_notices>>
           ELSE IF to_bot /\ RateLimited(from_id)
           THEN /\ rate_limit_tracker' = rl.tracker
                /\ rate_notices' =
                       [rate_notices EXCEPT ![from_id] =
                           (IF rl.opened THEN 0 ELSE @) + (IF rl.allowed THEN 0 ELSE 1)]
                /\ lastRx' =
                       IF ~rl.allowed
                       THEN seen("denied", <<Msg(from_id, "RATE_LIMIT", 0, 0)>>)
                       ELSE seen("chatbot", answer)
                \* a denied message returns before it is stored
                /\ conversations' = IF ~rl.allowed THEN conversations
                                    ELSE Stored(from_id, answered)
                /\ UNCHANGED <<auto_send_paused, auto_send_interval, botVars, config_file>>
           ELSE /\ lastRx' = IF to_bot THEN seen("chatbot", answer) ELSE seen("ignored", <<>>)
                /\ conversations' = Stored(from_id, IF to_bot THEN answered ELSE <<>>)
                /\ UNCHANGED <<auto_send_paused, auto_send_interval, botVars, config_file,
                               rate_limit_tracker, rate_notices>>
        /\ UNCHANGED <<now, connected, mainPc, auto_send_enabled, selected_nodes,
                       last_send_time, workerVars, message_acks, acks_due,
                       telemetry_history, splitVars, legacyVars>>

\* routing['errorReason'] as the radio reports it ('NONE': delivered)
ErrorReasons == {"NONE", "NO_ROUTE", "MAX_RETRANSMIT"}

\* f'NAK:{error_reason}'
NakStatus(error_reason) ==
    IF error_reason = "NO_ROUTE" THEN "NAK:NO_ROUTE" ELSE "NAK:MAX_RETRANSMIT"

\* the 'ack_status' handle_routing_response stores for the node
ack_statusWithoutReason(error_reason) ==
    IF error_reason = "NONE" THEN "ACK" ELSE NakStatus("NO_ROUTE")
ack_status(error_reason) ==
    IF error_reason = "NONE" THEN "ACK" ELSE NakStatus(error_reason)

\* on_receive for a ROUTING_APP packet: handle_routing_response overwrites the
\* node's entry
OnRouting(from_id, error_reason) ==
    /\ connected
    /\ acks_due[from_id] > 0
    /\ acks_due' = [acks_due EXCEPT ![from_id] = @ - 1]
    /\ packets_rx' = packets_rx + 1
    /\ lastRx' = [NoRx EXCEPT !.from = from_id, !.path = "routing"]
    /\ message_acks' = [message_acks EXCEPT ![from_id] = ack_status(error_reason)]
    /\ UNCHANGED <<now, connected, mainPc, schedVars, botVars, rate_limit_tracker,
                   rate_notices, config_file, workerVars, conversations, queueVars, telemetry_history,
                   splitVars, legacyVars>>

---------------------------------------------------------------------------
(* Auto-send worker: auto_send_worker and the send_telemetry it calls *)

\* the loop's condition: enabled, connected, not paused, and the interval elapsed
WorkerDueStrictlyLater ==
    /\ auto_send_enabled
    /\ connected
    /\ ~auto_send_paused
    /\ now - last_send_time > auto_send_interval
WorkerDueIgnoringPause ==
    /\ auto_send_enabled
    /\ connected
    /\ now - last_send_time >= auto_send_interval
WorkerDue ==
    /\ auto_send_enabled
    /\ connected
    /\ ~auto_send_paused
    /\ now - last_send_time >= auto_send_interval

\* the early returns of send_telemetry: not connected, no nodes selected
SendTelemetryGuard == connected /\ selected_nodes # <<>>

\* one pass of the loop up to the first blocking call: either a batch begins
\* (request_fresh_telemetry is entered) or the worker goes to sleep(1)
WorkerCheck(w) ==
    /\ pc[w] = "check"
    /\ pc' = [pc EXCEPT ![w] = IF WorkerDue /\ SendTelemetryGuard THEN "refresh" ELSE "check"]
    /\ started' = [started EXCEPT ![w] = IF WorkerDue /\ SendTelemetryGuard THEN now ELSE @]
    /\ UNCHANGED <<now, connected, mainPc, schedVars, botVars, rxVars, config_file, pos,
                   ledgerVars, queueVars, telemetry_history,
                   splitVars, legacyVars>>

\* request_fresh_telemetry: sendTelemetry(), sleep(3); then the for loop starts
WorkerRefresh(w) ==
    /\ pc[w] = "refresh"
    /\ pc' = [pc EXCEPT ![w] = "send"]
    /\ pos' = [pos EXCEPT ![w] = 1]
    /\ UNCHANGED <<now, connected, mainPc, schedVars, botVars, rxVars, config_file, started,
                   ledgerVars, queueVars, telemetry_history,
                   splitVars, legacyVars>>

\* one iteration of 'for node_id in self.selected_nodes': sendText to the node;
\* ok = FALSE: sendText raises, control is in the except clause of send_telemetry
WorkerSend(w, ok) ==
    /\ pc[w] = "send"
    /\ pos[w] <= Len(selected_nodes)
    \* 'Mark message as pending before sending'
    /\ message_acks' = [message_acks EXCEPT ![selected_nodes[pos[w]]] = "PENDING"]
    /\ IF ok
       THEN /\ pos' = [pos EXCEPT ![w] = @ + 1]
            /\ pc' = pc
            /\ started' = started
            \* wantAck=True: the node answers; beyond MaxAcksDue the answer is lost
            /\ acks_due' = [acks_due EXCEPT ![selected_nodes[pos[w]]] =
                                IF @ < MaxAcksDue THEN @ + 1 ELSE @]
       ELSE /\ pos' = [pos EXCEPT ![w] = 1]
            /\ pc' = [pc EXCEPT ![w] = "failed"]
            /\ started' = [started EXCEPT ![w] = 0]
            /\ acks_due' = acks_due
    /\ UNCHANGED <<now, connected, mainPc, schedVars, botVars, rxVars, config_file,
                   conversations, queueVars, telemetry_history,
                   splitVars, legacyVars>>

\* the except clause: the error is logged, send_telemetry returns False and the
\* loop of auto_send_worker goes on to sleep(1)
WorkerFailedEndsLoop(w) ==
    /\ pc[w] = "failed"
    /\ pc' = [pc EXCEPT ![w] = "off"]
    /\ UNCHANGED <<now, connected, mainPc, schedVars, botVars, rxVars, config_file, pos,
                   started, ledgerVars, queueVars, telemetry_history, splitVars, legacyVars>>
WorkerFailed(w) ==
    /\ pc[w] = "failed"
    /\ pc' = [pc EXCEPT ![w] = "check"]
    /\ UNCHANGED <<now, connected, mainPc, schedVars, botVars, rxVars, config_file, pos,
                   started, ledgerVars, queueVars, telemetry_history, splitVars, legacyVars>>

\* after the loop: self.last_send_time = time.time(); back to sleep(1)
WorkerFinish(w) ==
    /\ pc[w] = "send"
    /\ pos[w] > Len(selected_nodes)
    /\ last_send_time' = now
    /\ pc' = [pc EXCEPT ![w] = "check"]
    /\ pos' = [pos EXCEPT ![w] = 1]
    /\ started' = [started EXCEPT ![w] = 0]
    /\ UNCHANGED <<now, connected, mainPc, auto_send_enabled, auto_send_paused,
                   auto_send_interval, selected_nodes, botVars, rxVars, config_file,
                   ledgerVars, queueVars, telemetry_history,
                   splitVars, legacyVars>>

---------------------------------------------------------------------------
(* Main thread: connect_device, main, main_menu, configure_auto_send *)

\* connect_device: SerialInterface() opened, on_receive subscribed, connected = True
ConnectDevice ==
    /\ ~connected
    /\ connected' = TRUE
    /\ UNCHANGED <<now, mainPc, schedVars, botVars, rxVars, config_file, workerVars,
                   ledgerVars, queueVars, telemetry_history,
                   splitVars, legacyVars>>

\* main(): auto-started with auto-send enabled: stamp last_send_time, start a worker
AutoStart ==
    /\ mainPc = "startup"
    /\ auto_send_enabled
    /\ last_send_time' = now
    /\ pc' = [pc EXCEPT !["auto"] = "check"]
    /\ mainPc' = "dashboard"
    /\ UNCHANGED <<now, connected, auto_send_enabled, auto_send_paused, auto_send_interval,
                   selected_nodes, botVars, rxVars, config_file, pos, started,
                   ledgerVars, queueVars, telemetry_history,
                   splitVars, legacyVars>>

\* main_menu(): starts its own worker, then shows the menu
MainMenu ==
    /\ mainPc \in {"startup", "dashboard"}
    /\ pc' = [pc EXCEPT !["menu"] = "check"]
    /\ mainPc' = "menu"
    /\ UNCHANGED <<now, connected, schedVars, botVars, rxVars, config_file, pos, started,
                   ledgerVars, queueVars, telemetry_history,
                   splitVars, legacyVars>>

\* configure_auto_send, choice 1: toggle and save
ToggleEnable ==
    /\ mainPc = "menu"
    /\ auto_send_enabled' = ~auto_send_enabled
    /\ config_file' = Save(~auto_send_enabled, auto_send_interval, chatbot_enabled)
    /\ UNCHANGED <<now, connected, mainPc, auto_send_paused, auto_send_interval,
                   selected_nodes, last_send_time, botVars, rxVars, workerVars,
                   ledgerVars, queueVars, telemetry_history,
                   splitVars, legacyVars>>

\* 'if interval >= 30'
MenuIntervalAccepted(interval) == interval >= MinFreq

\* configure_auto_send, choice 2: set the interval and save, or refuse
SetInterval(interval) ==
    /\ mainPc = "menu"
    /\ IF MenuIntervalAccepted(interval)
       THEN /\ auto_send_interval' = interval
            /\ config_file' = Save(auto_send_enabled, interval, chatbot_enabled)
       ELSE UNCHANGED <<auto_send_interval, config_file>>
    /\ UNCHANGED <<now, connected, mainPc, auto_send_enabled, auto_send_paused,
                   selected_nodes, last_send_time, botVars, rxVars, workerVars,
                   ledgerVars, queueVars, telemetry_history,
                   splitVars, legacyVars>>

---------------------------------------------------------------------------
(* Inbound packets: on_receive for a TELEMETRY_APP packet, process_telemetry *)

\* 'time.time() - self.telemetry_history[-1].get('time', 0)) < 5'
WithinWindowInclusive(current_time, sample_time) == current_time - sample_time <= MergeWindow
WithinWindow(current_time, sample_time) == current_time - sample_time < MergeWindow

\* a sample: its 'time', and for each group of metrics the node whose packet
\* reported the values the sample holds ("none": the sample has no such fields)
NoSample == [time |-> 0, deviceMetrics |-> "none", environmentMetrics |-> "none"]

\* update the last sample with the fragment (dict.update, 'time' included) or
\* append the fragment as a new sample
Fragment(history, metrics, from_id, current_time) ==
    IF history # <<>> /\ WithinWindow(current_time, history[Len(history)].time)
    THEN [history EXCEPT ![Len(history)] =
             [@ EXCEPT !.time = current_time, ![metrics] = from_id]]
    ELSE Append(history, [NoSample EXCEPT !.time = current_time, ![metrics] = from_id])

\* payload: which of 'deviceMetrics', 'environmentMetrics' the packet carries
process_telemetry(history, payload, from_id, current_time) ==
    LET device == IF "deviceMetrics" \in payload
                  THEN Fragment(history, "deviceMetrics", from_id, current_time)
                  ELSE history
    IN  IF "environmentMetrics" \in payload
        THEN Fragment(device, "environmentMetrics", from_id, current_time)
        ELSE device

Payloads == {{"deviceMetrics"}, {"environmentMetrics"},
             {"deviceMetrics", "environmentMetrics"}}

OnTelemetry(from_id, payload) ==
    /\ connected
    /\ packets_rx' = packets_rx + 1
    /\ lastRx' = [NoRx EXCEPT !.from = from_id, !.path = "telemetry"]
    /\ telemetry_history' = process_telemetry(telemetry_history, payload, from_id, now)
    /\ UNCHANGED <<now, connected, mainPc, schedVars, botVars, rate_limit_tracker,
                   rate_notices, config_file, workerVars, ledgerVars, queueVars, splitVars, legacyVars>>

\* on_receive raises after the packet has been counted (a packet whose 'portnum'
\* is None, say): 'except Exception' logs the error and on_receive returns
OnReceiveError(from_id) ==
    /\ connected
    /\ packets_rx' = packets_rx + 1
    /\ lastRx' = [NoRx EXCEPT !.from = from_id, !.path = "error"]
    /\ UNCHANGED <<now, connected, mainPc, schedVars, botVars, rate_limit_tracker,
                   rate_notices, config_file, workerVars, ledgerVars, queueVars,
                   telemetry_history, splitVars, legacyVars>>

---------------------------------------------------------------------------
(* The operator's conversation view, shutdown and restart *)

\* view_conversation, choice C confirmed with 'yes'
ClearConversation(node_id) ==
    /\ mainPc = "menu"
    /\ conversations[node_id] # <<>>
    /\ conversations' = [conversations EXCEPT ![node_id] = <<>>]
    /\ UNCHANGED <<now, connected, mainPc, schedVars, botVars, rxVars, config_file,
                   workerVars, message_acks, acks_due, queueVars, telemetry_history,
                   splitVars, legacyVars>>

\* SIGINT or SIGTERM: signal_handler runs on the main thread and is inside
\* self.interface.close(); self.connected is not assigned
SignalHandler ==
    /\ mainPc \in {"startup", "dashboard", "menu"}
    /\ mainPc' = "closing"
    /\ UNCHANGED <<now, connected, schedVars, botVars, rxVars, config_file, workerVars,
                   ledgerVars, queueVars, telemetry_history, splitVars, legacyVars>>

\* sys.exit(0): the process ends and its daemon threads with it, wherever they are
Exit ==
    /\ mainPc = "closing"
    /\ mainPc' = "exited"
    /\ pc' = [w \in Workers |-> "off"]
    /\ UNCHANGED <<now, connected, schedVars, botVars, rxVars, config_file, pos, started,
                   ledgerVars, queueVars, telemetry_history, splitVars, legacyVars>>

\* what __init__ sets auto_send_paused to
PausedAtStartKept == auto_send_paused
PausedAtStart == FALSE

\* the process ends and the program is started again: __init__ with the
\* configuration file the previous process left (the clock goes on)
Restart(load_ok) ==
    LET try_load == config_file.chatbot_enabled /\ chatbot.model_exists
        loaded == try_load /\ chatbot.available /\ load_ok
    IN  /\ connected' = FALSE
        /\ mainPc' = "startup"
        /\ auto_send_enabled' = config_file.auto_send_enabled
        /\ auto_send_interval' = config_file.auto_send_interval
        /\ selected_nodes' = config_file.selected_nodes
        /\ auto_send_paused' = PausedAtStart
        /\ last_send_time' = 0
        /\ chatbot_enabled' = (IF try_load THEN loaded ELSE config_file.chatbot_enabled)
        /\ chatbot' = [chatbot EXCEPT !.loaded = loaded]
        /\ rate_limit_tracker' = <<>>
        /\ packets_rx' = 0
        /\ lastRx' = NoRx
        /\ rate_notices' = [p \in Peers |-> 0]
        /\ pc' = [w \in Workers |-> "off"]
        /\ pos' = [w \in Workers |-> 1]
        /\ started' = [w \in Workers |-> 0]
        /\ message_acks' = [p \in Peers |-> "NONE"]
        /\ acks_due' = [p \in Peers |-> 0]
        /\ conversations' = [p \in Peers |-> <<>>]
        /\ inbox' = <<>>
        /\ loading' = "none"
        /\ telemetry_history' = <<>>
        /\ UNCHANGED <<now, config_file, splitVars, legacyVars>>

---------------------------------------------------------------------------
(* The message chunker: split_message *)

\* str.rfind(sub): the highest index (from 0) at which sub occurs in s, or -1
RFind(s, sub) ==
    LET found == {i \in 0..(Len(s) - Len(sub)) : SubSeq(s, i + 1, i + Len(sub)) = sub}
    IN  IF found = {} THEN 0 - 1
        ELSE CHOOSE i \in found : \A j \in found : j <= i

\* max(chunk.rfind('. '), chunk.rfind('! '), chunk.rfind('? '))
last_period(chunk) ==
    LET found == {RFind(chunk, <<c, " ">>) : c \in {".", "!", "?"}}
    IN  CHOOSE i \in found : \A j \in found : j <= i

last_space(chunk) == RFind(chunk, <<" ">>)

\* where the loop cuts `rest`, which is longer than `limit`
split_pointWithoutHardCut(rest, limit) ==
    LET chunk == SubSeq(rest, 1, limit)
    IN  IF 2 * last_period(chunk) > limit THEN last_period(chunk) + 2
        ELSE last_space(chunk) + 1
split_pointPastLimit(rest, limit) ==
    LET chunk == SubSeq(rest, 1, limit)
    IN  IF 2 * last_period(chunk) > limit THEN last_period(chunk) + 2
        ELSE IF last_space(chunk) > 0 THEN last_space(chunk) + 1
        ELSE limit + 1
split_point(rest, limit) ==
    LET chunk == SubSeq(rest, 1, limit)
    IN  IF 2 * last_period(chunk) > limit THEN last_period(chunk) + 2
        ELSE IF last_space(chunk) > 0 THEN last_space(chunk) + 1
        ELSE limit

\* 'if len(text) <= max_length: return [text]'
WholeTrimmed(text) == <<Strip(text)>>
Whole(text) == <<text>>

terminalVars == <<now, connected, mainPc, schedVars, botVars, rxVars, config_file,
                  workerVars, ledgerVars, queueVars, telemetry_history>>

\* the call, up to the loop
SplitEnter ==
    /\ splitPc = "entry"
    /\ IF Len(split_text) <= max_length
       THEN /\ chunks' = Whole(split_text)
            /\ remaining' = remaining
            /\ splitPc' = "done"
       ELSE /\ chunks' = <<>>
            /\ remaining' = split_text
            /\ splitPc' = "loop"
    /\ UNCHANGED <<split_text, max_length, terminalVars, legacyVars>>

\* 'while remaining:' and one pass of its body
SplitStep ==
    /\ splitPc = "loop"
    /\ IF remaining = <<>>
       THEN /\ splitPc' = "done"
            /\ UNCHANGED <<remaining, chunks>>
       ELSE IF Len(remaining) <= max_length
       THEN /\ chunks' = Append(chunks, remaining)
            /\ remaining' = remaining
            /\ splitPc' = "done"
       ELSE LET cut == split_point(remaining, max_length)
            IN  /\ chunks' = Append(chunks, Strip(SubSeq(remaining, 1, cut)))
                /\ remaining' = Strip(SubSeq(remaining, cut + 1, Len(remaining)))
                /\ splitPc' = "loop"
    /\ UNCHANGED <<split_text, max_length, terminalVars, legacyVars>>

---------------------------------------------------------------------------
(* The older controller: main.py start_messaging and MeshtasticComm *)

\* MeshtasticComm.stop_messaging on the comm of session s: the flag is set only
\* when the comm's own messaging_thread is alive
stop_messaging(s) ==
    IF messaging_thread[s] = "alive"
    THEN stop_messaging_flag' = [stop_messaging_flag EXCEPT ![s] = TRUE]
    ELSE stop_messaging_flag' = stop_messaging_flag

\* start_messaging up to messaging_thread.join(): a new MeshtasticComm (its
\* messaging_thread None, its flag clear), comm.connect(), and on success the
\* thread running the local function messaging_loop
StartMessaging(success) ==
    /\ legacyPc = "menu"
    /\ session < MaxSessions
    /\ session' = session + 1
    /\ messaging_thread' = [messaging_thread EXCEPT ![session + 1] = "None"]
    /\ stop_messaging_flag' = [stop_messaging_flag EXCEPT ![session + 1] = FALSE]
    /\ IF success
       THEN /\ messaging_loop' = [messaging_loop EXCEPT ![session + 1] = "sending"]
            /\ legacyPc' = "joining"
       ELSE UNCHANGED <<messaging_loop, legacyPc>>
    /\ UNCHANGED <<legacy_sent, terminalVars, splitVars>>

\* messaging_loop, 'while True:' body up to time.sleep: comm.send_message
MessagingLoopSend(s, success) ==
    /\ messaging_loop[s] = "sending"
    /\ legacy_sent[s] < MaxLegacySends
    /\ legacy_sent' = [legacy_sent EXCEPT ![s] = IF success THEN @ + 1 ELSE @]
    /\ messaging_loop' = [messaging_loop EXCEPT ![s] = "sleeping"]
    /\ UNCHANGED <<legacyPc, session, messaging_thread, stop_messaging_flag,
                   terminalVars, splitVars>>

\* time.sleep(config['message_frequency']) returns
MessagingLoopWake(s) ==
    /\ messaging_loop[s] = "sleeping"
    /\ messaging_loop' = [messaging_loop EXCEPT ![s] = "sending"]
    /\ UNCHANGED <<legacyPc, session, messaging_thread, stop_messaging_flag, legacy_sent,
                   terminalVars, splitVars>>

\* Ctrl+C: KeyboardInterrupt is raised in the main thread, inside join();
\* "Messaging stopped by user." and comm.stop_messaging(), then back to the menu
KeyboardInterruptInJoin ==
    /\ legacyPc = "joining"
    /\ stop_messaging(session)
    /\ legacyPc' = "menu"
    /\ UNCHANGED <<session, messaging_loop, messaging_thread, legacy_sent,
                   terminalVars, splitVars>>

---------------------------------------------------------------------------
(* Specifications *)

\* load_model() is reached only by CHATBOTON, generate_response only by free text
LoadOutcomes(text) == IF Normalized[text] = CHATBOTON THEN BOOLEAN ELSE {TRUE}
ResponseOutcomes(text) == IF is_keyword(Normalized[text]) THEN {TRUE} ELSE BOOLEAN

Receive(texts, max_packets) ==
    \E from_id \in Peers, text \in texts :
        \E load_ok \in LoadOutcomes(text), response \in ResponseOutcomes(text) :
            /\ packets_rx < max_packets
            /\ loading = "none"
            /\ OnReceive(from_id, text, load_ok, response)
            /\ UNCHANGED queueVars

\* the same with a responder that loads and answers every time
ReceiveAnswered(texts, max_packets) ==
    \E from_id \in Peers, text \in texts :
        /\ packets_rx < max_packets
        /\ loading = "none"
        /\ OnReceive(from_id, text, TRUE, TRUE)
        /\ UNCHANGED queueVars

\* the radio's reader thread has a packet for on_receive, which is still busy
Arrive(from_id, text, max_packets) ==
    /\ connected
    /\ packets_rx + Len(inbox) + (IF loading = "none" THEN 0 ELSE 1) < max_packets
    /\ inbox' = Append(inbox, [from |-> from_id, text |-> text])
    /\ UNCHANGED <<now, connected, mainPc, schedVars, botVars, rxVars, config_file,
                   workerVars, ledgerVars, loading, telemetry_history, splitVars, legacyVars>>

\* the CHATBOTON branch reaches 'if self.chatbot.load_model():'
CallsLoadModel(from_id, text) ==
    /\ Normalized[text] = CHATBOTON
    /\ IsTrusted(from_id)
    /\ chatbot.available
    /\ chatbot.model_exists
    /\ ~(chatbot_enabled /\ chatbot.loaded)

\* on_receive is called with the next packet, on the reader thread: it returns,
\* or it blocks inside load_model()
Deliver ==
    /\ inbox # <<>>
    /\ loading = "none"
    /\ inbox' = Tail(inbox)
    /\ LET packet == Head(inbox)
       IN  IF CallsLoadModel(packet.from, packet.text)
           THEN /\ loading' = packet.from
                /\ UNCHANGED <<now, connected, mainPc, schedVars, botVars, rxVars,
                               config_file, workerVars, ledgerVars, telemetry_history,
                               splitVars, legacyVars>>
           ELSE /\ loading' = loading
                /\ \E response \in ResponseOutcomes(packet.text) :
                       OnReceive(packet.from, packet.text, TRUE, response)

\* load_model() returns and the CHATBOTON handler runs to its end
LoadEnd(load_ok) ==
    /\ loading # "none"
    /\ loading' = "none"
    /\ inbox' = inbox
    /\ OnReceive(loading, CHATBOTON, load_ok, TRUE)

Worker ==
    \E w \in Workers :
        \/ WorkerCheck(w)
        \/ WorkerRefresh(w)
        \/ \E ok \in BOOLEAN : WorkerSend(w, ok)
        \/ WorkerFailed(w)
        \/ WorkerFinish(w)

\* The router: every text from every peer, the operator's interval menu
Next ==
    \/ ConnectDevice
    \/ MainMenu
    \/ \E interval \in MenuIntervals : SetInterval(interval)
    \/ Receive(Texts, MaxPackets)

Spec == Init /\ [][Next]_vars

\* The scheduler: the workers against the clock, STOP/START/FREQ and the enable toggle
InitSched ==
    \E cfg \in InitConfigs : Construct(cfg, FALSE, FALSE, FALSE) /\ NotSplitting /\ LegacyIdle

NextSched ==
    \/ Tick(Instants)
    \/ ConnectDevice
    \/ AutoStart
    \/ MainMenu
    \/ ToggleEnable
    \/ Worker
    \/ Receive(SchedTexts, MaxSchedPackets)

SpecSched == InitSched /\ [][NextSched]_vars

\* The rate limiter: free text from a trusted and an untrusted peer over one window
InitRate ==
    /\ Construct(SavedConfig(FALSE, DefaultInterval, <<"p1">>, TRUE), TRUE, TRUE, TRUE)
    /\ NotSplitting
    /\ LegacyIdle

NextRate ==
    \/ Tick(RateInstants)
    \/ ConnectDevice
    \/ ReceiveAnswered({Hello}, MaxRatePackets)

SpecRate == InitRate /\ [][NextRate]_vars

\* The send batch: both workers against two target nodes, transmit failures and
\* the routing responses of the nodes; interval 30
InitBatch ==
    /\ Construct(SavedConfig(TRUE, MinFreq, <<"p1", "p2">>, FALSE), FALSE, FALSE, FALSE)
    /\ NotSplitting
    /\ LegacyIdle

Routing(max_packets) ==
    \E from_id \in Peers, error_reason \in ErrorReasons :
        /\ packets_rx < max_packets
        /\ loading = "none"
        /\ OnRouting(from_id, error_reason)

NextBatch ==
    \/ Tick(Instants)
    \/ ConnectDevice
    \/ AutoStart
    \/ MainMenu
    \/ Worker
    \/ Routing(MaxBatchPackets)

SpecBatch == InitBatch /\ [][NextBatch]_vars

\* The reader thread: packets queue up behind the handler that is running; the
\* responder is installed and disabled, so that CHATBOTON loads the model
LoadTexts == {CHATBOTON, CHATBOTOFF, STOP, Hello}

InitLoad ==
    /\ Construct(SavedConfig(FALSE, DefaultInterval, <<"p1">>, FALSE), TRUE, TRUE, TRUE)
    /\ NotSplitting
    /\ LegacyIdle

NextLoad ==
    \/ ConnectDevice
    \/ \E from_id \in Peers, text \in LoadTexts : Arrive(from_id, text, MaxLoadPackets)
    \/ Deliver
    \/ \E load_ok \in BOOLEAN : LoadEnd(load_ok)

SpecLoad == InitLoad /\ [][NextLoad]_vars

\* The worker loops keep ticking: STOP and START against the clock
LiveTexts == {STOP, START}

InitLive ==
    /\ Construct(SavedConfig(TRUE, DefaultInterval, <<"p1">>, FALSE), FALSE, FALSE, FALSE)
    /\ NotSplitting
    /\ LegacyIdle

NextLive ==
    \/ Tick(Instants)
    \/ ConnectDevice
    \/ AutoStart
    \/ MainMenu
    \/ Worker
    \/ Receive(LiveTexts, MaxLivePackets)
    \/ \E from_id \in Peers : packets_rx < MaxLivePackets /\ OnReceiveError(from_id)

\* 'while True: ... time.sleep(1)': a started worker takes its next step
WorkerTicks(w) ==
    WF_vars(WorkerCheck(w) \/ WorkerRefresh(w) \/ (\E ok \in BOOLEAN : WorkerSend(w, ok))
            \/ WorkerFailed(w) \/ WorkerFinish(w))

SpecLive == InitLive /\ [][NextLive]_vars /\ \A w \in Workers : WorkerTicks(w)

\* Restarts: STOP, START and FREQ30, the operator's menu, and the process ending
\* and starting again
NextRestart ==
    \/ ConnectDevice
    \/ MainMenu
    \/ ToggleEnable
    \/ Receive(SchedTexts, MaxRestartPackets)
    \/ \E load_ok \in BOOLEAN : Restart(load_ok)

SpecRestart == InitSched /\ [][NextRestart]_vars

\* Shutdown: the workers against the clock and a termination signal
NextShutdown ==
    \/ Tick(Instants)
    \/ mainPc \notin {"closing", "exited"} /\ ConnectDevice
    \/ AutoStart
    \/ MainMenu
    \/ Worker
    \/ SignalHandler
    \/ Exit

SpecShutdown == InitBatch /\ [][NextShutdown]_vars

\* The chunker: every text over SplitAlphabet of at most MaxTextLen characters,
\* texts with sentence terminators, a tab and distinct words; every max_length
\* from 1 to MaxChunkLen
SplitAlphabet == {"a", " "}

SplitSamples ==
    {<<"a", "a", "a", ".", " ", "a">>,
     <<"a", "a", "a", "!", " ", "a", "a">>,
     <<"a", "a", "a", "?", " ", "a", " ", "a">>,
     <<"a", ".", " ", "a", "a", "a">>,
     <<"a", "a", ".", " ", ".", " ", "a">>,
     <<"a", "!", " ", "a", "?", " ", "a">>,
     <<"a", "a", ".", "a", "a", ".">>,
     <<"a", "b", "\t", "c", "d", "e">>,
     <<"a", "b", " ", "c", "d", " ", "e", "f">>}

SplitTexts == (UNION {[1..n -> SplitAlphabet] : n \in 0..MaxTextLen}) \cup SplitSamples

InitSplit ==
    /\ Construct(NoConfig, FALSE, FALSE, FALSE)
    /\ split_text \in SplitTexts
    /\ max_length \in 1..MaxChunkLen
    /\ remaining = <<>>
    /\ chunks = <<>>
    /\ splitPc = "entry"
    /\ LegacyIdle

NextSplit ==
    \/ SplitEnter
    \/ SplitStep

SpecSplit == InitSplit /\ [][NextSplit]_vars /\ WF_vars(NextSplit)

\* Telemetry: fragments from two nodes against the clock
TelemetryDelays == {0, 4, 5, 10}
TelemetryInstants == {StartTime + d : d \in TelemetryDelays}

Telemetry(max_packets) ==
    \E from_id \in Peers, payload \in Payloads :
        /\ packets_rx < max_packets
        /\ OnTelemetry(from_id, payload)

NextTelemetry ==
    \/ Tick(TelemetryInstants)
    \/ ConnectDevice
    \/ Telemetry(MaxTelemetryPackets)

SpecTelemetry == InitLoad /\ [][NextTelemetry]_vars

\* The ledger: texts and commands from the nodes, the operator's conversation view
LedgerTexts == {Hello, STOP}

NextLedger ==
    \/ ConnectDevice
    \/ MainMenu
    \/ Receive(LedgerTexts, MaxLedgerPackets)
    \/ \E node_id \in Peers : ClearConversation(node_id)

SpecLedger == InitLoad /\ [][NextLedger]_vars

\* The rate limiter under a wall clock that is set back
NextSkew ==
    \/ Tick(RateInstants)
    \/ ClockJumpsBack(RateInstants)
    \/ ConnectDevice
    \/ ReceiveAnswered({Hello}, MaxSkewPackets)

SpecSkew == InitRate /\ [][NextSkew]_vars

\* the older controller alone
InitLegacy == Construct(NoConfig, FALSE, FALSE, FALSE) /\ NotSplitting /\ LegacyIdle

NextLegacy ==
    \/ \E success \in BOOLEAN : StartMessaging(success)
    \/ \E s \in Sessions, success \in BOOLEAN : MessagingLoopSend(s, success)
    \/ \E s \in Sessions : MessagingLoopWake(s)
    \/ KeyboardInterruptInJoin

SpecLegacy == InitLegacy /\ [][NextLegacy]_vars

---------------------------------------------------------------------------
(* Properties *)

Targets == Range(selected_nodes)

\* the step is one call of on_receive
Received == packets_rx' = packets_rx + 1

\* the normalized control keywords among the texts peers send
ControlKeywords == {Normalized[t] : t \in KeywordTexts}

\* C1: once a STOP from a target peer has been processed, and until a START has
\* been (here: while auto_send_paused holds, which only those two commands assign),
\* no worker transmits a telemetry message, not even a worker that had passed its
\* paused check before the STOP arrived.
C1_NoTelemetryWhilePaused ==
    [][\A w \in Workers : WorkerSend(w, TRUE) => ~auto_send_paused]_vars

\* C2: a control keyword from a sender outside the target set changes neither the
\* paused flag, the interval, the responder's enablement nor the persisted
\* configuration, and nothing is sent in reply.
C2_UntrustedKeywordIgnored ==
    [][(Received /\ lastRx'.text \in ControlKeywords /\ lastRx'.from \notin Targets)
        => /\ UNCHANGED <<auto_send_paused, auto_send_interval, chatbot_enabled, chatbot,
                          config_file>>
           /\ lastRx'.sends = <<>>]_vars

C2_Witness ==
    /\ lastRx.text = STOP
    /\ lastRx.from = "p2"
    /\ selected_nodes = <<"p1">>
    /\ ~auto_send_paused

\* C3: in every reachable state the auto-send interval is within [30, 3600].
C3_IntervalInRange == auto_send_interval \in 30..3600

\* the FREQ texts that must be rejected: no number, not a number, out of range
RejectedFreqTexts == {FREQ, Freq15, Freq29, Freq3601, Freq9999, FreqX}

IsRejection(msg) == msg.kind \in {"FREQ_RANGE", "FREQ_FORMAT"}

\* C4: a FREQ command from a target peer whose argument is missing, unparseable or
\* outside [30, 3600] leaves the interval and the persisted configuration unchanged
\* and sends one rejection reply to the sender.
C4_BadFreqRejected ==
    [][(Received /\ lastRx'.text \in RejectedFreqTexts /\ lastRx'.from \in Targets)
        => /\ UNCHANGED <<auto_send_interval, config_file>>
           /\ Len(lastRx'.sends) = 1
           /\ IsRejection(lastRx'.sends[1])
           /\ lastRx'.sends[1].to = lastRx'.from]_vars

\* FREQ texts with the number each one states
FreqSamples == {<<Freq30, 30>>, <<Freq120Lower, 120>>, <<Freq3600, 3600>>}

\* C5: FREQ<n> with n in [30, 3600] from a target peer sets the interval to n, and
\* the reply names n and the interval in force just before the command.
C5_FreqSetsInterval ==
    [][\A s \in FreqSamples :
         (Received /\ lastRx'.text = Normalized[s[1]] /\ lastRx'.from \in Targets)
         => /\ auto_send_interval' = s[2]
            /\ lastRx'.sends =
                   <<[to |-> lastRx'.from, kind |-> "FREQ_SET", a |-> s[2],
                      b |-> auto_send_interval]>>]_vars

C5_Witness ==
    /\ lastRx.text = Normalized[Freq120Lower]
    /\ lastRx.from \in Targets
    /\ auto_send_interval = 120
    /\ lastRx.sends = <<[to |-> lastRx.from, kind |-> "FREQ_SET", a |-> 120, b |-> 30]>>

\* C6: every keyword command from a target peer causes exactly one message to be
\* sent, to the originating peer.
C6_ExactlyOneReply ==
    (lastRx.text \in ControlKeywords /\ lastRx.from \in Targets)
    => /\ Len(lastRx.sends) = 1
       /\ lastRx.sends[1].to = lastRx.from

\* C7: within a window an untrusted peer's first 50 free texts are allowed and every
\* further one is denied; the count never exceeds 50 and a denial changes neither
\* the count nor the window's reset time.
C7_FiftyPerWindow ==
    [][/\ \A p \in DOMAIN rate_limit_tracker' : rate_limit_tracker'[p].count <= 50
       /\ \A p \in Peers \ Targets :
            (Received /\ lastRx'.from = p /\ lastRx'.text = Normalized[Hello])
            => IF p \notin DOMAIN rate_limit_tracker
               THEN /\ lastRx'.path = "chatbot"
                    /\ rate_limit_tracker'[p] = [count |-> 1, reset_time |-> now + 3600]
               ELSE IF now >= rate_limit_tracker[p].reset_time
               THEN /\ lastRx'.path = "chatbot"
                    /\ rate_limit_tracker'[p] = [count |-> 1, reset_time |-> now + 3600]
               ELSE IF rate_limit_tracker[p].count < 50
               THEN /\ lastRx'.path = "chatbot"
                    /\ rate_limit_tracker'[p] =
                           [rate_limit_tracker[p] EXCEPT !.count = @ + 1]
               ELSE /\ lastRx'.path = "denied"
                    /\ rate_limit_tracker'[p] = rate_limit_tracker[p]]_vars

C7_Witness ==
    /\ "p2" \in DOMAIN rate_limit_tracker
    /\ rate_limit_tracker["p2"].count = 50
    /\ lastRx.from = "p2"
    /\ lastRx.path = "denied"

\* C8: at most one rate-limit notice is sent to a peer per window.
C8_OneNoticePerWindow == \A p \in Peers : rate_notices[p] <= 1

\* C9: free text from a target peer is never denied by the rate limiter and never
\* creates or modifies a rate window, however many such texts arrive.
C9_TrustedNotLimited ==
    [][\A p \in Targets :
         (Received /\ lastRx'.from = p /\ lastRx'.text = Normalized[Hello])
         => /\ lastRx'.path # "denied"
            /\ rate_limit_tracker' = rate_limit_tracker]_vars

C9_Witness ==
    /\ packets_rx > 50
    /\ lastRx.from = "p1"
    /\ lastRx.path = "chatbot"
    /\ DOMAIN rate_limit_tracker = {}

\* C10: a worker begins a send batch only in a state where auto-send is enabled and
\* not paused, the interval has elapsed since last_send_time and the target list is
\* not empty; with an empty target list no worker is ever inside a batch.
C10_BatchOnlyWhenDue ==
    [][/\ \A w \in Workers :
            (pc[w] = "check" /\ pc'[w] = "refresh")
            => /\ auto_send_enabled
               /\ ~auto_send_paused
               /\ now - last_send_time >= auto_send_interval
               /\ selected_nodes # <<>>
       /\ \A w \in Workers :
            pc'[w] \in {"refresh", "send"} => pc[w] \in {"check", "refresh", "send"}
       /\ selected_nodes' = <<>> => \A w \in Workers : pc'[w] \notin {"refresh", "send"}]_vars

C10_Witness ==
    \E w \in Workers :
        /\ pc[w] = "send"
        /\ pos[w] = 2
        /\ last_send_time = StartTime
        /\ now = StartTime + 30

InBatch(w) == pc[w] \in {"refresh", "send"}

\* C11: one due time yields one send batch, however many worker loops the process
\* has started: two batches are never in progress together (the second would have
\* been begun against the same last_send_time as the first).
C11_OneBatchPerDueTime == Cardinality({w \in Workers : InBatch(w)}) <= 1

\* C12: when a batch completes, last_send_time is the time at which the batch was
\* begun, not the time at which its last transmit completed.
C12_StampIsInitiationTime ==
    [][\A w \in Workers : WorkerFinish(w) => last_send_time' = started[w]]_vars

\* C13: a batch does not end before a transmit has been attempted to every target
\* node, whether or not an earlier transmit of the batch failed.
C13_EveryPeerAttempted ==
    [][\A w \in Workers :
         (pc[w] = "send" /\ pc'[w] # "send") => pos[w] > Len(selected_nodes)]_vars

\* C14: a batch in which a transmit failed still stamps last_send_time (with a time
\* no earlier than the batch's beginning), as a fully successful batch does.
C14_FailureKeepsCadence ==
    [][\A w \in Workers :
         (pc[w] = "send" /\ pc'[w] \in {"check", "failed"})
         => last_send_time' >= started[w]]_vars

\* C15: each transmit of a scheduled telemetry message records PENDING for the node
\* and appends one sent entry with the telemetry text to the node's conversation.
C15_SendRecorded ==
    [][\A w \in Workers :
         WorkerSend(w, TRUE)
         => LET node_id == selected_nodes[pos[w]]
            IN  /\ message_acks'[node_id] = "PENDING"
                /\ conversations'[node_id] =
                       Append(conversations[node_id], Entry("sent", "telemetry"))]_vars

\* C16: an acknowledgment that arrives while a later send to the same node still
\* awaits its own (two or more responses are due) leaves the node's status PENDING.
C16_StaleAckIgnored ==
    [][\A p \in Peers :
         (OnRouting(p, "NONE") /\ acks_due[p] >= 2) => message_acks'[p] = "PENDING"]_vars

\* a keyword command from a target node waits for on_receive
CommandWaiting ==
    \E i \in DOMAIN inbox :
        /\ inbox[i].from \in Targets
        /\ Normalized[inbox[i].text] \in ControlKeywords

\* C17: while load_model() is in flight for a CHATBOTON, a waiting keyword command
\* from a target node can be handled: the context that calls on_receive is not
\* blocked by the load.
C17_ReaderNotBlockedByLoad ==
    (loading # "none" /\ CommandWaiting) => ENABLED Deliver

LoadFailureReplies == {"CHATBOT_UNAVAILABLE", "CHATBOT_NO_MODEL", "CHATBOT_LOAD_FAILED"}

\* C18: a CHATBOTON from a target node whose load fails, or which finds no backend
\* or no model file, is answered with one failure reply and leaves the responder's
\* enablement, its loaded state and the persisted configuration as they were.
C18_LoadFailureKeepsState ==
    [][\A p \in Targets :
         (\/ /\ ~(chatbot_enabled /\ chatbot.loaded)
             /\ OnReceive(p, CHATBOTON, FALSE, TRUE)
          \/ /\ ~chatbot.available \/ ~chatbot.model_exists
             /\ OnReceive(p, CHATBOTON, TRUE, TRUE))
         => /\ UNCHANGED <<chatbot_enabled, chatbot, config_file>>
            /\ Len(lastRx'.sends) = 1
            /\ lastRx'.sends[1].to = p
            /\ lastRx'.sends[1].kind \in LoadFailureReplies]_vars

C18_Witness ==
    /\ lastRx.text = CHATBOTON
    /\ lastRx.from \in Targets
    /\ lastRx.sends = <<[to |-> lastRx.from, kind |-> "CHATBOT_LOAD_FAILED", a |-> 0, b |-> 0]>>
    /\ chatbot.available
    /\ chatbot.model_exists
    /\ ~chatbot.loaded
    /\ ~chatbot_enabled

\* C19: the process starts with auto-send disabled when there is no configuration
\* file, and every step that enables auto-send leaves it enabled and not paused,
\* whatever commands were handled while it was disabled.
C19_EnableLandsRunning ==
    /\ ~config_file.present => ~auto_send_enabled
    /\ [][(~auto_send_enabled /\ auto_send_enabled') => ~auto_send_paused']_vars

\* a worker has been started and its loop finds a batch due
BatchDue ==
    /\ auto_send_enabled
    /\ ~auto_send_paused
    /\ connected
    /\ selected_nodes # <<>>
    /\ now - last_send_time >= auto_send_interval
    /\ \E w \in Workers : pc[w] # "off"

\* C20: a START from a target node leaves auto-send not paused; and whenever, after
\* such a START, auto-send is enabled, the device connected, the target list not
\* empty and the interval elapsed, a worker eventually begins a batch (unless one
\* of these conditions ceases to hold first).
C20_StartResumesSending ==
    /\ [][(Received /\ lastRx'.text = START /\ lastRx'.from \in Targets)
          => ~auto_send_paused']_vars
    /\ (lastRx.text = START /\ lastRx.from \in Targets /\ BatchDue)
       ~> ((\E w \in Workers : InBatch(w)) \/ ~BatchDue)

C20_Witness ==
    /\ lastRx.text = START
    /\ lastRx.from \in Targets
    /\ conversations[lastRx.from][1] = Entry("sent", "reply")
    /\ Len(conversations[lastRx.from]) = 4
    /\ \E w \in Workers : pc[w] = "send" /\ started[w] = StartTime + 60

\* C21: the paused state lives only as long as the process: handling STOP or START
\* never changes the persisted configuration, and after a restart auto-send is not
\* paused (even when STOP was the last command before it), while enabled, interval
\* and target nodes are the values the configuration file holds.
C21_PausedNotPersisted ==
    [][/\ (Received /\ lastRx'.text \in {STOP, START}) => config_file' = config_file
       /\ \A load_ok \in BOOLEAN :
            Restart(load_ok)
            => /\ ~auto_send_paused'
               /\ auto_send_enabled' = config_file.auto_send_enabled
               /\ auto_send_interval' = config_file.auto_send_interval
               /\ selected_nodes' = config_file.selected_nodes]_vars

\* restarted after a FREQ30 was saved and the operator disabled auto-send
C21_Witness ==
    /\ mainPc = "startup"
    /\ packets_rx = 0
    /\ ~auto_send_paused
    /\ auto_send_interval = 30
    /\ config_file.auto_send_interval = 30
    /\ ~auto_send_enabled
    /\ selected_nodes = <<"p1", "p2">>

\* C22: after a shutdown request (the termination signal has been received) no
\* worker begins a new send batch.
C22_NoBatchAfterShutdownRequest ==
    [][\A w \in Workers :
         mainPc \in {"closing", "exited"} => ~(pc[w] = "check" /\ pc'[w] = "refresh")]_vars

\* C23: every chunk split_message produces is at most max_length characters long,
\* for every text and every max_length of at least 1.
C23_ChunksWithinMaxLength == \A i \in DOMAIN chunks : Len(chunks[i]) <= max_length

\* cut after a sentence terminator past the middle of the prefix
C23_Witness ==
    /\ splitPc = "done"
    /\ split_text = <<"a", "a", "a", ".", " ", "a">>
    /\ max_length = 5
    /\ chunks = <<(<<"a", "a", "a", ".">>), (<<"a">>)>>

\* str.split(): the words of a text, in order
RECURSIVE Words(_)
Words(s) ==
    LET t == LStrip(s)
        blanks == {i \in DOMAIN t : t[i] \in Whitespace}
        n == IF blanks = {} THEN Len(t) + 1
             ELSE CHOOSE i \in blanks : \A j \in blanks : i <= j
    IN  IF t = <<>> THEN <<>>
        ELSE <<SubSeq(t, 1, n - 1)>> \o Words(SubSeq(t, n, Len(t)))

\* ' '.join(parts)
RECURSIVE Joined(_)
Joined(parts) ==
    IF parts = <<>> THEN <<>>
    ELSE IF Len(parts) = 1 THEN parts[1]
    ELSE parts[1] \o <<" ">> \o Joined(Tail(parts))

\* C24: the chunks joined with single spaces have the words of the original text,
\* in order: no word is dropped, duplicated, reordered or broken in two.
C24_WordsPreserved == splitPc = "done" => Words(Joined(chunks)) = Words(split_text)

\* C25: a text no longer than max_length comes back as the one chunk, unmodified
\* (its surrounding whitespace included).
C25_ShortTextUnchanged ==
    (splitPc = "done" /\ Len(split_text) <= max_length) => chunks = <<split_text>>

C25_Witness ==
    /\ splitPc = "done"
    /\ split_text = <<" ", "a", " ">>
    /\ max_length = 3
    /\ chunks = <<split_text>>

\* C26: split_message terminates: every pass of its loop either ends the loop or
\* leaves a strictly shorter remaining text, also for a text with no space and no
\* sentence terminator; and the call returns.
C26_ChunkerTerminates ==
    /\ [][SplitStep => (splitPc' = "done" \/ Len(remaining') < Len(remaining))]_vars
    /\ <>(splitPc = "done")

\* six hard cuts
C26_Witness ==
    /\ splitPc = "done"
    /\ split_text = <<"a", "a", "a", "a", "a", "a">>
    /\ max_length = 1
    /\ Len(chunks) = 6

\* latest(): the last sample of the history
Latest(history) == history[Len(history)]

\* C27: an environment-metrics fragment that arrives less than 5 seconds after a
\* device-metrics fragment is merged into its sample, which then has the fields of
\* both; a fragment that arrives 5 seconds or more after the latest one becomes a
\* new sample, which latest() returns.
C27_FragmentsCoalesce ==
    [][\A p \in Peers, metrics \in {"deviceMetrics", "environmentMetrics"} :
         (OnTelemetry(p, {metrics}) /\ telemetry_history # <<>>)
         => IF now - Latest(telemetry_history).time < 5
            THEN /\ Len(telemetry_history') = Len(telemetry_history)
                 /\ \A i \in 1..(Len(telemetry_history) - 1) :
                        telemetry_history'[i] = telemetry_history[i]
                 /\ (/\ metrics = "environmentMetrics"
                     /\ Latest(telemetry_history).deviceMetrics # "none")
                    => /\ Latest(telemetry_history').deviceMetrics =
                              Latest(telemetry_history).deviceMetrics
                       /\ Latest(telemetry_history').environmentMetrics = p
            ELSE /\ telemetry_history' =
                        Append(telemetry_history, Latest(telemetry_history'))
                 /\ Latest(telemetry_history') =
                        [NoSample EXCEPT !.time = now, ![metrics] = p]]_vars

\* device metrics, environment metrics 4 seconds later, device metrics 6 seconds
\* after that
C27_Witness ==
    /\ Len(telemetry_history) = 2
    /\ telemetry_history[1] =
           [time |-> StartTime + 4, deviceMetrics |-> "p1", environmentMetrics |-> "p1"]
    /\ telemetry_history[2] =
           [time |-> StartTime + 10, deviceMetrics |-> "p1", environmentMetrics |-> "none"]

\* C28: fragments are merged only when they come from the same node: a fragment is
\* never merged into a sample that holds another node's metrics.
C28_MergeOnlySameSource ==
    [][\A p \in Peers, payload \in Payloads :
         (/\ OnTelemetry(p, payload)
          /\ telemetry_history # <<>>
          /\ Len(telemetry_history') = Len(telemetry_history))
         => /\ Latest(telemetry_history).deviceMetrics \in {"none", p}
            /\ Latest(telemetry_history).environmentMetrics \in {"none", p}]_vars

IsPrefix(s, t) == Len(s) <= Len(t) /\ SubSeq(t, 1, Len(s)) = s

\* C29: every node's conversation is append-only: each step leaves the entries it
\* had, in their order, and at most adds entries after them.
C29_LedgerAppendOnly ==
    [][\A p \in Peers : IsPrefix(conversations[p], conversations'[p])]_vars

\* the conditions under which a worker's loop begins a batch
SendDue == WorkerDue /\ SendTelemetryGuard

C31_UntrustedKeywordIsFreeText ==
    [][(/\ Received
        /\ lastRx'.text \in ControlKeywords
        /\ lastRx'.from \notin Targets
        /\ chatbot_enabled
        /\ chatbot.loaded)
       => lastRx'.path \in {"chatbot", "denied"}]_vars

\* C32: a rate-limited node is not denied for ever: its first free text at or
\* after the window's reset time is allowed and leaves a new window with count 1
\* and reset time now + 3600.
C32_WindowResets ==
    [][\A p \in Peers \ Targets :
         (/\ Received
          /\ lastRx'.from = p
          /\ lastRx'.text = Normalized[Hello]
          /\ p \in DOMAIN rate_limit_tracker
          /\ now >= rate_limit_tracker[p].reset_time)
         => /\ lastRx'.path = "chatbot"
            /\ rate_limit_tracker'[p] = [count |-> 1, reset_time |-> now + 3600]]_vars

\* 52 texts, all of p2: 50 answered, one denied, and one answered at the reset time
C32_Witness ==
    /\ packets_rx = 52
    /\ conversations["p1"] = <<>>
    /\ Len(conversations["p2"]) = 102
    /\ "p2" \in DOMAIN rate_limit_tracker
    /\ rate_limit_tracker["p2"] = [count |-> 1, reset_time |-> StartTime + 7200]
    /\ now = StartTime + 3600
    /\ lastRx.path = "chatbot"

\* C33: when the clock has jumped back so far that now < reset time - 3600 for a
\* node's window, the node's next rate check opens a new window at once.
C33_BackwardJumpResetsWindow ==
    [][\A p \in Peers \ Targets :
         (/\ Received
          /\ lastRx'.from = p
          /\ lastRx'.text = Normalized[Hello]
          /\ p \in DOMAIN rate_limit_tracker
          /\ now < rate_limit_tracker[p].reset_time - 3600)
         => rate_limit_tracker'[p] = [count |-> 1, reset_time |-> now + 3600]]_vars

\* the prefix of max_length characters the loop looks at
Prefix == SubSeq(remaining, 1, max_length)

\* positions (from 1) of the sentence terminators of the prefix, and of its spaces
TerminatorsAt ==
    {i \in 1..(Len(Prefix) - 1) : Prefix[i] \in {".", "!", "?"} /\ Prefix[i + 1] = " "}
SpacesAt == {i \in 1..Len(Prefix) : Prefix[i] = " "}

Last(S) == CHOOSE i \in S : \A j \in S : j <= i

\* how many characters the chunk takes: through the space after the last sentence
\* terminator if that terminator lies past the middle of the prefix, else through
\* the last space, else max_length
BoundaryInOrder ==
    IF TerminatorsAt # {} /\ 2 * (Last(TerminatorsAt) - 1) > max_length
    THEN Last(TerminatorsAt) + 1
    ELSE IF SpacesAt # {} THEN Last(SpacesAt)
    ELSE max_length

\* C34: for a remaining text longer than max_length the chunk ends just after the
\* last sentence terminator of the first max_length characters if that terminator
\* lies past their midpoint, otherwise just after their last space, otherwise after
\* exactly max_length characters.
C34_BoundaryOrder ==
    [][(SplitStep /\ Len(remaining) > max_length)
       => /\ chunks' = Append(chunks, Strip(SubSeq(remaining, 1, BoundaryInOrder)))
          /\ remaining' = Strip(SubSeq(remaining, BoundaryInOrder + 1, Len(remaining)))]_vars

\* the step is a scheduled transmit to node p
SentTo(p) ==
    \E w \in Workers :
        /\ pc[w] = "send"
        /\ pos[w] <= Len(selected_nodes)
        /\ selected_nodes[pos[w]] = p
        /\ WorkerSend(w, TRUE)

\* C35: a node has one delivery status, that of the latest event: PENDING right
\* after a scheduled send to it, ACK after a routing response without error from
\* it, NAK with the error reason after a routing response with an error, and none
\* as long as the node has neither been sent to nor answered; an event for one
\* node leaves the other nodes' statuses alone.
C35_LatestDeliveryStatus ==
    [][\A p \in Peers :
         /\ SentTo(p) => message_acks'[p] = "PENDING"
         /\ OnRouting(p, "NONE") => message_acks'[p] = "ACK"
         /\ OnRouting(p, "NO_ROUTE") => message_acks'[p] = "NAK:NO_ROUTE"
         /\ OnRouting(p, "MAX_RETRANSMIT") => message_acks'[p] = "NAK:MAX_RETRANSMIT"
         /\ (SentTo(p) \/ \E r \in ErrorReasons : OnRouting(p, r))
            => \A q \in Peers \ {p} : message_acks'[q] = message_acks[q]
         /\ (message_acks[p] = "NONE" /\ message_acks'[p] # "NONE")
            => pc # pc' \/ pos # pos' \/ lastRx'.from = p]_vars

\* p1 was sent to twice and has refused once, p2 was sent to and has acknowledged
C35_Witness ==
    /\ message_acks["p1"] = "NAK:MAX_RETRANSMIT"
    /\ message_acks["p2"] = "ACK"
    /\ acks_due["p1"] = 1
    /\ acks_due["p2"] = 0

\* the handler transmitted a text of the responder
Answered(rx) == \E i \in DOMAIN rx.sends : rx.sends[i].kind = "CHATBOT_RESPONSE"

\* C36: a text is handed to the responder (or refused by its rate limiter) only if
\* it is no keyword and the responder is enabled and loaded; a CHATBOTOFF from a
\* target node leaves the responder disabled, and while it is disabled no text
\* from any node is answered by it.
C36_ResponderGated ==
    [][/\ (Received /\ lastRx'.path \in {"chatbot", "denied"})
          => (chatbot_enabled /\ chatbot.loaded /\ ~lastRx'.keyword)
       /\ (Received /\ lastRx'.text = CHATBOTOFF /\ lastRx'.from \in Targets)
          => ~chatbot_enabled'
       /\ (Received /\ ~chatbot_enabled) => ~Answered(lastRx')]_vars

\* CHATBOTON, CHATBOTOFF, then a free text that is stored and not answered
C36_Witness ==
    /\ packets_rx = 3
    /\ ~chatbot_enabled
    /\ ~chatbot.loaded
    /\ lastRx.text = Normalized[Hello]
    /\ lastRx.from = "p1"
    /\ lastRx.path = "ignored"
    /\ conversations["p1"] =
           <<Entry("sent", "reply"), Entry("received", "text"),
             Entry("sent", "reply"), Entry("received", "text"),
             Entry("received", "text")>>
    /\ config_file.present

\* C37: in a node's conversation the received entry of an inbound text comes
\* before the sent entries of the replies that text caused (the command's reply,
\* the responder's chunks).
C37_ReceivedBeforeReplies ==
    [][\A p \in Peers :
         (/\ Received
          /\ lastRx'.from = p
          /\ Len(conversations'[p]) > Len(conversations[p]))
         => conversations'[p][Len(conversations[p]) + 1].direction = "received"]_vars

\* the number of received entries of a conversation
RECURSIVE ReceivedCount(_)
ReceivedCount(entries) ==
    IF entries = <<>> THEN 0
    ELSE (IF Head(entries).direction = "received" THEN 1 ELSE 0) + ReceivedCount(Tail(entries))

\* C38: every inbound text is appended as a received entry to its sender's
\* conversation, whatever path it takes: command, responder, responder disabled
\* or rate-limit denial.
C38_EveryTextStored ==
    [][\A p \in Peers :
         (Received /\ lastRx'.from = p /\ lastRx'.path \notin {"routing", "telemetry", "error"})
         => ReceivedCount(conversations'[p]) = ReceivedCount(conversations[p]) + 1]_vars


\* the "Messaging stopped by user." path has run for session s
StoppedByUser(s) ==
    /\ messaging_loop[s] # "unborn"
    /\ s < session \/ (s = session /\ legacyPc = "menu")

\* C39: once Ctrl+C has stopped a messaging session of the older controller,
\* the messaging loop thread of that session transmits no further message
C39_NoSendAfterStop ==
    [][\A s \in Sessions : StoppedByUser(s) => legacy_sent'[s] = legacy_sent[s]]_vars

\* C40: when the text is longer than max_length, split_message returns no
\* empty chunk, whatever the text begins with
C40_NoEmptyChunk ==
    Len(split_text) > max_length => \A i \in DOMAIN chunks : chunks[i] # <<>>

============================================================================
